---- MODULE Spec2Model ----
(***************************************************************************)
(* A model of the NBT reader of libminecraft (src/nbt/reader.rs).          *)
(*                                                                         *)
(* The byte stream is the pair (input, pos); the decoder's primitive       *)
(* readers, the tag dispatcher and the three ReadingComplex states are     *)
(* operators over it, and parse_nbt_stream is the state machine: one       *)
(* action for the code before the driving loop and one action per         *)
(* iteration of the loop.                                                  *)
(*                                                                         *)
(* Representation.                                                         *)
(*   byte        a number in 0..255                                        *)
(*   String      the sequence of its (validated) UTF-8 bytes               *)
(*   Value       [kind |-> "Byte" | ... | "IntArray", val |-> payload]     *)
(*   List        [kind |-> "Empty" | "Byte" | ..., val |-> sequence]       *)
(*   Compound    a function from keys (Strings) to Values (a HashMap)      *)
(*   Option<T>   <<>> for None, <<x>> for Some(x)                          *)
(*   i64 / f64   the pair <<high 32 bits (as an i32), the low 4 bytes>>    *)
(*   f32         its bit pattern, as an i32                                *)
(*   Result      [err |-> error, val |-> value, pos |-> cursor afterwards] *)
(***************************************************************************)
EXTENDS Integers, Sequences, FiniteSets, TLC

VARIABLES
    input,              \* the bytes the reader supplies
    chunk,              \* most bytes one Read::read call returns (0: no limit)
    pos,                \* the reader's cursor: bytes consumed so far
    pc,                 \* "start", "loop" or "done"
    root_tag_name,      \* parse_nbt_stream's local (Option: set once read)
    in_progress_reads,  \* parse_nbt_stream's explicit stack
    result              \* what parse_nbt_stream returned, or how it ended

vars == <<input, chunk, pos, pc, root_tag_name, in_progress_reads, result>>

-----------------------------------------------------------------------------
(* Tag-type codes, src/nbt/mod.rs *)

TAG_END == 0
TAG_BYTE == 1
TAG_SHORT == 2
TAG_INT == 3
TAG_LONG == 4
TAG_FLOAT == 5
TAG_DOUBLE == 6
TAG_BYTE_ARRAY == 7
TAG_STRING == 8
TAG_LIST == 9
TAG_COMPOUND == 10
TAG_INT_ARRAY == 11

-----------------------------------------------------------------------------
(* Errors and results *)

NoError == [e |-> "none", code |-> 0, want |-> 0, got |-> 0]

\* NbtReadError::UnexpectedEof; want/got record the read that came up short
UnexpectedEof(want, got) ==
    [e |-> "UnexpectedEof", code |-> 0, want |-> want, got |-> got]

\* NbtReadError::UnknownTagType(u8)
UnknownTagType(tag_type) ==
    [e |-> "UnknownTagType", code |-> tag_type, want |-> 0, got |-> 0]

\* NbtReadError::InvalidTagType
InvalidTagType == [e |-> "InvalidTagType", code |-> 0, want |-> 0, got |-> 0]

\* NbtReadError::IoError(err), err.kind() == ErrorKind::UnexpectedEof
IoErrorEof == [e |-> "IoError", code |-> 0, want |-> 0, got |-> 0]

\* NbtReadError::InvalidUtf8(err)
InvalidUtf8 == [e |-> "InvalidUtf8", code |-> 0, want |-> 0, got |-> 0]

\* a panic!(): the call does not return
Panic == [e |-> "panic", code |-> 0, want |-> 0, got |-> 0]

\* impl From<io::Error> for NbtReadError: every io::Error becomes IoError
From_io_Error(kind) == IoErrorEof

Ok(v, p) == [err |-> NoError, val |-> v, pos |-> p]
Err(e, p) == [err |-> e, val |-> <<>>, pos |-> p]
IsOk(r) == r.err.e = "none"

None == <<>>
Some(x) == <<x>>

Min(a, b) == IF a <= b THEN a ELSE b

-----------------------------------------------------------------------------
(* The byte source *)

\* Read::read_exact, which byteorder's read_u8 .. read_f64 use: it reads
\* until n bytes are in, and at end of input fails with an io::Error of
\* kind UnexpectedEof, having consumed what was left.
read_exact(p, n) ==
    IF p + n <= Len(input)
    THEN Ok(SubSeq(input, p + 1, p + n), p + n)
    ELSE Err(From_io_Error("UnexpectedEof"), Len(input))

\* Read::read on a buffer of length bytes: one transfer of the source, at
\* most what is left and, for a source that hands out its bytes in pieces
\* (chunk > 0), at most chunk bytes. chunk = 0 is a source that fills the
\* buffer whenever the bytes are there (io::Cursor).
read(p, length) ==
    LET transfer(n) == Ok(SubSeq(input, p + 1, p + n), p + n)
    IN  transfer(IF chunk = 0
                 THEN Min(length, Len(input) - p)
                 ELSE Min(Min(length, Len(input) - p), chunk))

\* read_n_bytes_to_vector as it would be with a loop that reads until the
\* buffer is full
read_n_bytes_to_vector_Retry(p, length) ==
    IF p + length <= Len(input)
    THEN Ok(SubSeq(input, p + 1, p + length), p + length)
    ELSE Err(UnexpectedEof(length, Len(input) - p), Len(input))

\* fn read_n_bytes_to_vector
read_n_bytes_to_vector(p, length) ==
    LET check(bytes, bytes_read) ==
            IF bytes_read # length
            THEN Err(UnexpectedEof(length, bytes_read), bytes.pos)
            ELSE Ok(bytes.val, bytes.pos)
        after_read(bytes) == check(bytes, Len(bytes.val))
    IN  after_read(read(p, length))

-----------------------------------------------------------------------------
(* Big-endian numbers (byteorder::BigEndian) *)

Signed8(b) == IF b >= 128 THEN b - 256 ELSE b

BE_u16(bs) == bs[1] * 256 + bs[2]
BE_i16(bs) == Signed8(bs[1]) * 256 + bs[2]
BE_u32(bs) == bs[1] * 16777216 + bs[2] * 65536 + bs[3] * 256 + bs[4]
BE_i32(bs) == Signed8(bs[1]) * 16777216 + bs[2] * 65536 + bs[3] * 256 + bs[4]
BE_i64(bs) == <<BE_i32(SubSeq(bs, 1, 4)), SubSeq(bs, 5, 8)>>

\* the width of what byteorder's $read_func reads, and its value
WidthOf(read_func) ==
    CASE read_func \in {"read_u16", "read_i16"} -> 2
      [] read_func \in {"read_u32", "read_i32", "read_f32"} -> 4
      [] read_func \in {"read_i64", "read_f64"} -> 8

Decode(read_func, bs) ==
    IF read_func = "read_u16" THEN BE_u16(bs)
    ELSE IF read_func = "read_i16" THEN BE_i16(bs)
    ELSE IF read_func = "read_u32" THEN BE_u32(bs)
    ELSE IF read_func \in {"read_i32", "read_f32"} THEN BE_i32(bs)
    ELSE BE_i64(bs)

\* macro read_number!: $reader.$read_func::<BigEndian>().map_err(NbtReadError::from)
read_number(p, read_func) ==
    LET decoded(r) == IF IsOk(r) THEN Ok(Decode(read_func, r.val), r.pos) ELSE r
    IN  decoded(read_exact(p, WidthOf(read_func)))

\* byteorder's read_u8 and read_i8
read_u8(p) ==
    LET decoded(r) == IF IsOk(r) THEN Ok(r.val[1], r.pos) ELSE r
    IN  decoded(read_exact(p, 1))

read_i8(p) ==
    LET decoded(r) == IF IsOk(r) THEN Ok(Signed8(r.val[1]), r.pos) ELSE r
    IN  decoded(read_exact(p, 1))

-----------------------------------------------------------------------------
(* String::from_utf8: the bytes are kept as they are when they are valid   *)
(* UTF-8, refused otherwise.                                               *)

IsCont(b) == b >= 128 /\ b <= 191

RECURSIVE ValidUtf8(_, _)
ValidUtf8(bs, i) ==
    IF i > Len(bs) THEN TRUE
    ELSE LET b == bs[i]
             has(k) == i + k <= Len(bs)
         IN  IF b <= 127 THEN ValidUtf8(bs, i + 1)
             ELSE IF b >= 194 /\ b <= 223
                  THEN has(1) /\ IsCont(bs[i + 1]) /\ ValidUtf8(bs, i + 2)
             ELSE IF b >= 224 /\ b <= 239
                  THEN /\ has(2)
                       /\ IsCont(bs[i + 1])
                       /\ (b = 224 => bs[i + 1] >= 160)
                       /\ (b = 237 => bs[i + 1] <= 159)
                       /\ IsCont(bs[i + 2])
                       /\ ValidUtf8(bs, i + 3)
             ELSE IF b >= 240 /\ b <= 244
                  THEN /\ has(3)
                       /\ IsCont(bs[i + 1])
                       /\ (b = 240 => bs[i + 1] >= 144)
                       /\ (b = 244 => bs[i + 1] <= 143)
                       /\ IsCont(bs[i + 2])
                       /\ IsCont(bs[i + 3])
                       /\ ValidUtf8(bs, i + 4)
             ELSE FALSE

String_from_utf8(bytes, p) ==
    IF ValidUtf8(bytes, 1) THEN Ok(bytes, p) ELSE Err(InvalidUtf8, p)

-----------------------------------------------------------------------------
(* Primitive decoders.  A function that goes on after a  let x = f(..)?;   *)
(* is split there: the operator with_x takes the Result of f, passes its   *)
(* error on and goes on with its value otherwise.                          *)

\* fn is_simple_value: Ok(true), Ok(false) or Err(UnknownTagType)
is_simple_value(tag_type) ==
    IF tag_type \in {TAG_BYTE, TAG_SHORT, TAG_INT, TAG_LONG, TAG_FLOAT,
                     TAG_DOUBLE, TAG_BYTE_ARRAY, TAG_STRING}
    THEN Ok(TRUE, 0)
    ELSE IF tag_type \in {TAG_LIST, TAG_COMPOUND, TAG_INT_ARRAY}
    THEN Ok(FALSE, 0)
    ELSE Err(UnknownTagType(tag_type), 0)

\* read_nbt_string, line 152: Ok(String::from_utf8(bytes)?)
read_nbt_string_with_bytes(bytes) ==
    IF ~IsOk(bytes) THEN bytes
    ELSE String_from_utf8(bytes.val, bytes.pos)

\* read_nbt_string, lines 151-152: after  let length = ..?
read_nbt_string_with_length(length) ==
    IF ~IsOk(length) THEN length
    ELSE read_nbt_string_with_bytes(
             read_n_bytes_to_vector(length.pos, length.val))

\* fn read_nbt_string
read_nbt_string(p) == read_nbt_string_with_length(read_number(p, "read_u16"))

\* read_nbt_byte_array, line 160: after  let length = ..?
read_nbt_byte_array_with_length(length) ==
    IF ~IsOk(length) THEN length
    ELSE read_n_bytes_to_vector(length.pos, length.val)

\* fn read_nbt_byte_array
read_nbt_byte_array(p) ==
    read_nbt_byte_array_with_length(read_number(p, "read_u32"))

RECURSIVE read_int_array_loop(_, _, _)

\* read_nbt_int_array, line 170: vec.push(read_number!(..)?), then the
\* rest of the loop
read_int_array_push(remaining, vec, element) ==
    IF ~IsOk(element) THEN element
    ELSE read_int_array_loop(remaining - 1, Append(vec, element.val),
                             element.pos)

\* the for loop of read_nbt_int_array
read_int_array_loop(remaining, vec, p) ==
    IF remaining = 0 THEN Ok(vec, p)
    ELSE read_int_array_push(remaining, vec, read_number(p, "read_i32"))

\* read_nbt_int_array, lines 168-172: after  let length = ..?
read_nbt_int_array_with_length(length) ==
    IF ~IsOk(length) THEN length
    ELSE read_int_array_loop(length.val, <<>>, length.pos)

\* fn read_nbt_int_array
read_nbt_int_array(p) ==
    read_nbt_int_array_with_length(read_number(p, "read_u32"))

Value(kind, v) == [kind |-> kind, val |-> v]

\* r with its value wrapped as Value::kind, errors passed on (the ? operator)
Wrap(kind, r) == IF IsOk(r) THEN Ok(Value(kind, r.val), r.pos) ELSE r

\* fn read_simple_value
read_simple_value(tag_type, p) ==
    IF tag_type = TAG_BYTE THEN Wrap("Byte", read_i8(p))
    ELSE IF tag_type = TAG_SHORT THEN Wrap("Short", read_number(p, "read_i16"))
    ELSE IF tag_type = TAG_INT THEN Wrap("Int", read_number(p, "read_i32"))
    ELSE IF tag_type = TAG_LONG THEN Wrap("Long", read_number(p, "read_i64"))
    ELSE IF tag_type = TAG_FLOAT THEN Wrap("Float", read_number(p, "read_f32"))
    ELSE IF tag_type = TAG_DOUBLE THEN Wrap("Double", read_number(p, "read_f64"))
    ELSE IF tag_type = TAG_BYTE_ARRAY
    THEN Wrap("ByteArray", read_nbt_byte_array(p))
    ELSE IF tag_type = TAG_STRING THEN Wrap("String", read_nbt_string(p))
    ELSE IF tag_type = TAG_INT_ARRAY THEN Wrap("IntArray", read_nbt_int_array(p))
    ELSE Err(Panic, p)

-----------------------------------------------------------------------------
(* Lists *)

List(kind, v) == [kind |-> kind, val |-> v]

\* struct ReadingCompound
ReadingCompound(value, name_of_current_value) ==
    [type |-> "ReadingCompound", value |-> value,
     name_of_current_value |-> name_of_current_value, items_remaining |-> 0]

\* struct ReadingListOfList
ReadingListOfList(items_remaining, value) ==
    [type |-> "ReadingListOfList", value |-> value,
     name_of_current_value |-> None, items_remaining |-> items_remaining]

\* struct ReadingListOfCompound
ReadingListOfCompound(items_remaining, value) ==
    [type |-> "ReadingListOfCompound", value |-> value,
     name_of_current_value |-> None, items_remaining |-> items_remaining]

\* the $read_func block start_list_read hands to read_simple_list! for
\* each simple inner tag type
read_list_element(inner_tag_type, p) ==
    IF inner_tag_type = TAG_BYTE THEN read_i8(p)
    ELSE IF inner_tag_type = TAG_SHORT THEN read_number(p, "read_i16")
    ELSE IF inner_tag_type = TAG_INT THEN read_number(p, "read_i32")
    ELSE IF inner_tag_type = TAG_LONG THEN read_number(p, "read_i64")
    ELSE IF inner_tag_type = TAG_FLOAT THEN read_number(p, "read_f32")
    ELSE IF inner_tag_type = TAG_DOUBLE THEN read_number(p, "read_f64")
    ELSE IF inner_tag_type = TAG_BYTE_ARRAY THEN read_nbt_byte_array(p)
    ELSE IF inner_tag_type = TAG_STRING THEN read_nbt_string(p)
    ELSE read_nbt_int_array(p)

RECURSIVE read_simple_list(_, _, _, _)

\* read_simple_list!, line 232: the_list.push($read_func?), then the rest
\* of the loop
read_simple_list_push(inner_tag_type, number_to_read, the_list, element) ==
    IF ~IsOk(element) THEN element
    ELSE read_simple_list(inner_tag_type, number_to_read - 1,
                          Append(the_list, element.val), element.pos)

\* macro read_simple_list!: push $number_to_read elements, ? on each
read_simple_list(inner_tag_type, number_to_read, the_list, p) ==
    IF number_to_read = 0 THEN Ok(the_list, p)
    ELSE read_simple_list_push(inner_tag_type, number_to_read, the_list,
                               read_list_element(inner_tag_type, p))

\* the List variant read_simple_list! builds for an inner tag type
ListKindOf(inner_tag_type) ==
    CASE inner_tag_type = TAG_BYTE -> "Byte"
      [] inner_tag_type = TAG_SHORT -> "Short"
      [] inner_tag_type = TAG_INT -> "Int"
      [] inner_tag_type = TAG_LONG -> "Long"
      [] inner_tag_type = TAG_FLOAT -> "Float"
      [] inner_tag_type = TAG_DOUBLE -> "Double"
      [] inner_tag_type = TAG_BYTE_ARRAY -> "ByteArray"
      [] inner_tag_type = TAG_STRING -> "String"
      [] inner_tag_type = TAG_INT_ARRAY -> "IntArray"

\* enum ListStart
ListStart(start, v) == [start |-> start, v |-> v]

\* read_simple_list!, line 234: List::$list_enum_type(the_list), as the
\* ListStart::Simple start_list_read makes of it
simple_list_start(inner_tag_type, the_list) ==
    IF ~IsOk(the_list) THEN the_list
    ELSE Ok(ListStart("Simple", List(ListKindOf(inner_tag_type), the_list.val)),
            the_list.pos)

\* the match of start_list_read as it would be if a list of no elements
\* were List::Empty whatever its inner tag type
list_read_by_type_EmptyOnZero(inner_tag_type, number, p) ==
    IF inner_tag_type = TAG_END THEN Err(InvalidTagType, p)
    ELSE IF inner_tag_type = TAG_LIST
    THEN Ok(ListStart("ListOfList", ReadingListOfList(number, <<>>)), p)
    ELSE IF inner_tag_type = TAG_COMPOUND
    THEN Ok(ListStart("ListOfCompound", ReadingListOfCompound(number, <<>>)), p)
    ELSE IF inner_tag_type \in {TAG_BYTE, TAG_SHORT, TAG_INT, TAG_LONG,
                                TAG_FLOAT, TAG_DOUBLE, TAG_BYTE_ARRAY,
                                TAG_STRING, TAG_INT_ARRAY}
    THEN IF number = 0
         THEN Ok(ListStart("Simple", List("Empty", <<>>)), p)
         ELSE simple_list_start(inner_tag_type,
                                read_simple_list(inner_tag_type, number, <<>>, p))
    ELSE Err(UnknownTagType(inner_tag_type), p)

\* the match of start_list_read on inner_tag_type
list_read_by_type(inner_tag_type, number, p) ==
    IF inner_tag_type = TAG_END THEN Err(InvalidTagType, p)
    ELSE IF inner_tag_type = TAG_LIST
    THEN Ok(ListStart("ListOfList", ReadingListOfList(number, <<>>)), p)
    ELSE IF inner_tag_type = TAG_COMPOUND
    THEN Ok(ListStart("ListOfCompound", ReadingListOfCompound(number, <<>>)), p)
    ELSE IF inner_tag_type \in {TAG_BYTE, TAG_SHORT, TAG_INT, TAG_LONG,
                                TAG_FLOAT, TAG_DOUBLE, TAG_BYTE_ARRAY,
                                TAG_STRING, TAG_INT_ARRAY}
    THEN simple_list_start(inner_tag_type,
                           read_simple_list(inner_tag_type, number, <<>>, p))
    ELSE Err(UnknownTagType(inner_tag_type), p)

\* start_list_read as it would be without the test of number in line 245
start_list_read_AnyCount(p) ==
    LET with_number(inner_tag_type, number) ==
            IF ~IsOk(number) THEN number
            ELSE IF inner_tag_type = TAG_END
            THEN Ok(ListStart("Simple", List("Empty", <<>>)), number.pos)
            ELSE list_read_by_type(inner_tag_type, number.val, number.pos)
        with_inner_tag_type(inner_tag_type) ==
            IF ~IsOk(inner_tag_type) THEN inner_tag_type
            ELSE with_number(inner_tag_type.val,
                             read_number(inner_tag_type.pos, "read_u32"))
    IN  with_inner_tag_type(read_u8(p))

\* start_list_read, lines 245-280: after  let number = ..?
start_list_read_with_number(inner_tag_type, number) ==
    IF ~IsOk(number) THEN number
    ELSE IF inner_tag_type = TAG_END /\ number.val = 0
    THEN Ok(ListStart("Simple", List("Empty", <<>>)), number.pos)
    ELSE list_read_by_type(inner_tag_type, number.val, number.pos)

\* start_list_read, lines 243-280: after  let inner_tag_type = ..?
start_list_read_with_inner_tag_type(inner_tag_type) ==
    IF ~IsOk(inner_tag_type) THEN inner_tag_type
    ELSE start_list_read_with_number(
             inner_tag_type.val, read_number(inner_tag_type.pos, "read_u32"))

\* fn start_list_read
start_list_read(p) == start_list_read_with_inner_tag_type(read_u8(p))

-----------------------------------------------------------------------------
(* The tag dispatcher *)

\* enum ReadStart
ReadStart(start, v) == [start |-> start, v |-> v]

\* lines 294-297: Ok(ReadStart::Simple(read_simple_value(tag_type, reader)?))
simple_read_start(value) ==
    IF ~IsOk(value) THEN value
    ELSE Ok(ReadStart("Simple", value.val), value.pos)

\* lines 300-309: the match on start_list_read(reader)?
list_read_start(list_start) ==
    IF ~IsOk(list_start) THEN list_start
    ELSE IF list_start.val.start = "Simple"
    THEN Ok(ReadStart("Simple", Value("List", list_start.val.v)), list_start.pos)
    ELSE Ok(ReadStart("Complex", list_start.val.v), list_start.pos)

\* lines 294-320: what start_potentially_complex_read does once the tag
\* type is known to be simple or not
read_by_simplicity(is_simple_tag, tag_type, p) ==
    IF is_simple_tag
    THEN simple_read_start(read_simple_value(tag_type, p))
    ELSE IF tag_type = TAG_LIST THEN list_read_start(start_list_read(p))
    ELSE IF tag_type = TAG_COMPOUND
    THEN Ok(ReadStart("Complex", ReadingCompound(<<>>, None)), p)
    ELSE Err(Panic, p)

\* start_potentially_complex_read as it would be if line 292 returned
\* InvalidTagType
start_potentially_complex_read_Invalid(tag_type, p) ==
    LET with_is_simple_tag(is_simple_tag) ==
            IF ~IsOk(is_simple_tag) THEN Err(InvalidTagType, p)
            ELSE read_by_simplicity(is_simple_tag.val, tag_type, p)
    IN  with_is_simple_tag(is_simple_value(tag_type))

\* fn start_potentially_complex_read
start_potentially_complex_read(tag_type, p) ==
    IF ~IsOk(is_simple_value(tag_type))
    THEN Err(UnknownTagType(tag_type), p)
    ELSE read_by_simplicity(is_simple_value(tag_type).val, tag_type, p)

-----------------------------------------------------------------------------
(* The three ReadingComplex implementations *)

\* enum ComplexReadResult, with the state of self after the call
ComplexReadResult(res, self, next_read) ==
    [res |-> res, self |-> self, next_read |-> next_read]

\* an insert that keeps the value a key already has
insert_KeepFirst(map, key, value) == map @@ (key :> value)

\* HashMap::insert
insert(map, key, value) == (key :> value) @@ map

RECURSIVE ReadingCompound_continue_read(_, _)

\* the match of ReadingCompound::continue_read as it would be without
\* line 349, the self.name_of_current_value = Some(tag_name)
ReadingCompound_with_read_NoName(self, tag_name, maybe_complex_read) ==
    IF ~IsOk(maybe_complex_read) THEN maybe_complex_read
    ELSE IF maybe_complex_read.val.start = "Simple"
    THEN ReadingCompound_continue_read(
             [self EXCEPT !.value = insert(@, tag_name, maybe_complex_read.val.v)],
             maybe_complex_read.pos)
    ELSE Ok(ComplexReadResult("DescendInto", self,
                              Some(maybe_complex_read.val.v)),
            maybe_complex_read.pos)

\* ReadingCompound::continue_read, lines 344-353: the match on
\* maybe_complex_read; a simple value is inserted and the loop goes on
ReadingCompound_with_read(self, tag_name, maybe_complex_read) ==
    IF ~IsOk(maybe_complex_read) THEN maybe_complex_read
    ELSE IF maybe_complex_read.val.start = "Simple"
    THEN ReadingCompound_continue_read(
             [self EXCEPT !.value = insert(@, tag_name, maybe_complex_read.val.v)],
             maybe_complex_read.pos)
    ELSE Ok(ComplexReadResult(
                "DescendInto",
                [self EXCEPT !.name_of_current_value = Some(tag_name)],
                Some(maybe_complex_read.val.v)),
            maybe_complex_read.pos)

\* ReadingCompound::continue_read, lines 341-353: after  let tag_name = ..?
ReadingCompound_with_tag_name(self, tag_type, tag_name) ==
    IF ~IsOk(tag_name) THEN tag_name
    ELSE ReadingCompound_with_read(
             self, tag_name.val,
             start_potentially_complex_read(tag_type, tag_name.pos))

\* ReadingCompound::continue_read as it would be if the TAG_END byte were
\* looked at and left in the stream
ReadingCompound_with_tag_type_PeekEnd(self, tag_type) ==
    IF ~IsOk(tag_type) THEN tag_type
    ELSE IF tag_type.val = TAG_END
    THEN Ok(ComplexReadResult("Done", self, None), tag_type.pos - 1)
    ELSE ReadingCompound_with_tag_name(self, tag_type.val,
                                       read_nbt_string(tag_type.pos))

\* ReadingCompound::continue_read, lines 335-353: after  let tag_type = ..?
ReadingCompound_with_tag_type(self, tag_type) ==
    IF ~IsOk(tag_type) THEN tag_type
    ELSE IF tag_type.val = TAG_END
    THEN Ok(ComplexReadResult("Done", self, None), tag_type.pos)
    ELSE ReadingCompound_with_tag_name(self, tag_type.val,
                                       read_nbt_string(tag_type.pos))

\* impl ReadingComplex for ReadingCompound: fn continue_read
ReadingCompound_continue_read(self, p) ==
    ReadingCompound_with_tag_type(self, read_u8(p))

\* ReadingCompound::descended_read_complete as it would be if it used a
\* copy of the pending name and left the name in place (no mem::swap)
ReadingCompound_descended_read_complete_KeepName(self, value) ==
    IF self.name_of_current_value = None THEN Err(Panic, 0)
    ELSE Ok([self EXCEPT !.value = insert(@, self.name_of_current_value[1], value)],
            0)

\* impl ReadingComplex for ReadingCompound: fn descended_read_complete.
\* The value of the Ok is self afterwards; name.unwrap() panics on None.
ReadingCompound_descended_read_complete(self, value) ==
    IF self.name_of_current_value = None THEN Err(Panic, 0)
    ELSE Ok([self EXCEPT !.name_of_current_value = None,
                         !.value = insert(@, self.name_of_current_value[1], value)],
            0)

\* impl ReadingComplex for ReadingCompound: fn final_value
ReadingCompound_final_value(self) == Value("Compound", self.value)

\* ReadingListOfList::continue_read as it would be without line 384, the
\* items_remaining -= 1
ReadingListOfList_with_read_NoDecrement(self, maybe_complex_read) ==
    IF ~IsOk(maybe_complex_read) THEN maybe_complex_read
    ELSE IF maybe_complex_read.val.start = "Simple"
    THEN IF maybe_complex_read.val.v.kind = "List"
         THEN Ok(ComplexReadResult(
                     "NotFinished",
                     [self EXCEPT !.value = Append(@, maybe_complex_read.val.v.val)],
                     None),
                 maybe_complex_read.pos)
         ELSE Err(Panic, maybe_complex_read.pos)
    ELSE Ok(ComplexReadResult("DescendInto", self, Some(maybe_complex_read.val.v)),
            maybe_complex_read.pos)

\* ReadingListOfList::continue_read, lines 384-400: items_remaining -= 1
\* and the match on maybe_complex_read
ReadingListOfList_with_read(self, maybe_complex_read) ==
    IF ~IsOk(maybe_complex_read) THEN maybe_complex_read
    ELSE IF maybe_complex_read.val.start = "Simple"
    THEN IF maybe_complex_read.val.v.kind = "List"
         THEN Ok(ComplexReadResult(
                     "NotFinished",
                     [self EXCEPT !.items_remaining = @ - 1,
                                  !.value = Append(@, maybe_complex_read.val.v.val)],
                     None),
                 maybe_complex_read.pos)
         ELSE Err(Panic, maybe_complex_read.pos)
    ELSE Ok(ComplexReadResult("DescendInto",
                              [self EXCEPT !.items_remaining = @ - 1],
                              Some(maybe_complex_read.val.v)),
            maybe_complex_read.pos)

\* impl ReadingComplex for ReadingListOfList: fn continue_read
ReadingListOfList_continue_read(self, p) ==
    IF self.items_remaining = 0
    THEN Ok(ComplexReadResult("Done", self, None), p)
    ELSE ReadingListOfList_with_read(
             self, start_potentially_complex_read(TAG_LIST, p))

\* impl ReadingComplex for ReadingListOfList: fn descended_read_complete
ReadingListOfList_descended_read_complete(self, inner_value) ==
    IF inner_value.kind = "List"
    THEN Ok([self EXCEPT !.value = Append(@, inner_value.val)], 0)
    ELSE Err(Panic, 0)

\* impl ReadingComplex for ReadingListOfList: fn final_value
ReadingListOfList_final_value(self) == Value("List", List("List", self.value))

\* ReadingListOfCompound::continue_read as it would be without line 436,
\* the items_remaining -= 1
ReadingListOfCompound_with_read_NoDecrement(self, maybe_complex_read) ==
    IF ~IsOk(maybe_complex_read) THEN maybe_complex_read
    ELSE IF maybe_complex_read.val.start = "Simple"
    THEN Err(Panic, maybe_complex_read.pos)
    ELSE Ok(ComplexReadResult("DescendInto", self, Some(maybe_complex_read.val.v)),
            maybe_complex_read.pos)

\* ReadingListOfCompound::continue_read, lines 436-448: items_remaining
\* -= 1 and the match on maybe_complex_read
ReadingListOfCompound_with_read(self, maybe_complex_read) ==
    IF ~IsOk(maybe_complex_read) THEN maybe_complex_read
    ELSE IF maybe_complex_read.val.start = "Simple"
    THEN Err(Panic, maybe_complex_read.pos)
    ELSE Ok(ComplexReadResult("DescendInto",
                              [self EXCEPT !.items_remaining = @ - 1],
                              Some(maybe_complex_read.val.v)),
            maybe_complex_read.pos)

\* impl ReadingComplex for ReadingListOfCompound: fn continue_read
ReadingListOfCompound_continue_read(self, p) ==
    IF self.items_remaining = 0
    THEN Ok(ComplexReadResult("Done", self, None), p)
    ELSE ReadingListOfCompound_with_read(
             self, start_potentially_complex_read(TAG_COMPOUND, p))

\* impl ReadingComplex for ReadingListOfCompound: fn descended_read_complete
ReadingListOfCompound_descended_read_complete(self, inner_value) ==
    IF inner_value.kind = "Compound"
    THEN Ok([self EXCEPT !.value = Append(@, inner_value.val)], 0)
    ELSE Err(Panic, 0)

\* impl ReadingComplex for ReadingListOfCompound: fn final_value
ReadingListOfCompound_final_value(self) ==
    Value("List", List("Compound", self.value))

\* trait ReadingComplex: the dynamic dispatch on Box<ReadingComplex>
continue_read(self, p) ==
    IF self.type = "ReadingCompound"
    THEN ReadingCompound_continue_read(self, p)
    ELSE IF self.type = "ReadingListOfList"
    THEN ReadingListOfList_continue_read(self, p)
    ELSE ReadingListOfCompound_continue_read(self, p)

descended_read_complete(self, value) ==
    IF self.type = "ReadingCompound"
    THEN ReadingCompound_descended_read_complete(self, value)
    ELSE IF self.type = "ReadingListOfList"
    THEN ReadingListOfList_descended_read_complete(self, value)
    ELSE ReadingListOfCompound_descended_read_complete(self, value)

final_value(self) ==
    IF self.type = "ReadingCompound" THEN ReadingCompound_final_value(self)
    ELSE IF self.type = "ReadingListOfList"
    THEN ReadingListOfList_final_value(self)
    ELSE ReadingListOfCompound_final_value(self)

-----------------------------------------------------------------------------
(* fn parse_nbt_stream *)

Running == [status |-> "none", name |-> <<>>, value |-> <<>>, err |-> NoError]

\* Ok(RootValue { name: root_tag_name, value: value })
Returned(name, value) ==
    [status |-> "Ok", name |-> name, value |-> value, err |-> NoError]

\* Err(e), or the panic that ends the call
Failed(e) ==
    [status |-> IF e.e = "panic" THEN "Panic" ELSE "Err",
     name |-> <<>>, value |-> <<>>, err |-> e]

\* line 472: the ? on read_start
read_root_with_read_start(name, read_start) ==
    IF ~IsOk(read_start) THEN read_start
    ELSE Ok(<<name, read_start.val>>, read_start.pos)

\* line 472: after  let root_tag_name = ..?
read_root_with_root_tag_name(root_tag_type, name) ==
    IF ~IsOk(name) THEN name
    ELSE read_root_with_read_start(
             name.val, start_potentially_complex_read(root_tag_type, name.pos))

\* lines 470-472: after  let root_tag_type = ..?
read_root_with_root_tag_type(root_tag_type) ==
    IF ~IsOk(root_tag_type) THEN root_tag_type
    ELSE read_root_with_root_tag_name(root_tag_type.val,
                                      read_nbt_string(root_tag_type.pos))

\* lines 469-472: the root tag, the root name and the dispatch on the tag;
\* the value of an Ok is <<root_tag_name, read_start>>
read_root(p) == read_root_with_root_tag_type(read_u8(p))

\* lines 469-472 from where the reader stands
root_read == read_root(pos)

\* a ? of lines 469-472 fails, or the dispatcher panics
StartFails ==
    /\ pc = "start"
    /\ ~IsOk(root_read)
    /\ pos' = root_read.pos
    /\ result' = Failed(root_read.err)
    /\ pc' = "done"
    /\ UNCHANGED <<input, chunk, root_tag_name, in_progress_reads>>

\* lines 473-477: ReadStart::Simple(value) => return Ok(RootValue ...)
StartSimple ==
    /\ pc = "start"
    /\ IsOk(root_read)
    /\ root_read.val[2].start = "Simple"
    /\ pos' = root_read.pos
    /\ root_tag_name' = Some(root_read.val[1])
    /\ result' = Returned(root_read.val[1], root_read.val[2].v)
    /\ pc' = "done"
    /\ UNCHANGED <<input, chunk, in_progress_reads>>

\* lines 478-481: ReadStart::Complex(reading_), pushed as the stack's seed
StartComplex ==
    /\ pc = "start"
    /\ IsOk(root_read)
    /\ root_read.val[2].start = "Complex"
    /\ pos' = root_read.pos
    /\ root_tag_name' = Some(root_read.val[1])
    /\ in_progress_reads' = <<root_read.val[2].v>>
    /\ pc' = "loop"
    /\ UNCHANGED <<input, chunk, result>>

\* in_progress_reads.last_mut().unwrap()
working_read == in_progress_reads[Len(in_progress_reads)]

\* lines 484-487: working_read.continue_read(reader)
step == continue_read(working_read, pos)

\* the stack with its last entry replaced
with_last(stack, entry) == [stack EXCEPT ![Len(stack)] = entry]

\* line 486 as it would be if a failed continue_read only dropped the
\* composite that failed and the loop went on with its parent
LoopFails_Swallow ==
    /\ pc = "loop"
    /\ ~IsOk(step)
    /\ pos' = step.pos
    /\ in_progress_reads' = SubSeq(in_progress_reads, 1, Len(in_progress_reads) - 1)
    /\ IF Len(in_progress_reads) > 1
       THEN UNCHANGED <<pc, result>>
       ELSE /\ result' = Failed(step.err)
            /\ pc' = "done"
    /\ UNCHANGED <<input, chunk, root_tag_name>>

\* line 486: continue_read(reader)? fails, or panics
LoopFails ==
    /\ pc = "loop"
    /\ ~IsOk(step)
    /\ pos' = step.pos
    /\ result' = Failed(step.err)
    /\ pc' = "done"
    /\ UNCHANGED <<input, chunk, root_tag_name, in_progress_reads>>

\* line 489: ComplexReadResult::NotFinished => ()
LoopNotFinished ==
    /\ pc = "loop"
    /\ IsOk(step)
    /\ step.val.res = "NotFinished"
    /\ pos' = step.pos
    /\ in_progress_reads' = with_last(in_progress_reads, step.val.self)
    /\ UNCHANGED <<input, chunk, pc, root_tag_name, result>>

\* lines 490-492 as they would be if next_read took the place of the
\* working read instead of being pushed
LoopDescendInto_Replace ==
    /\ pc = "loop"
    /\ IsOk(step)
    /\ step.val.res = "DescendInto"
    /\ pos' = step.pos
    /\ in_progress_reads' = with_last(in_progress_reads, step.val.next_read[1])
    /\ UNCHANGED <<input, chunk, pc, root_tag_name, result>>

\* lines 490-492: ComplexReadResult::DescendInto(next_read) => push
LoopDescendInto ==
    /\ pc = "loop"
    /\ IsOk(step)
    /\ step.val.res = "DescendInto"
    /\ pos' = step.pos
    /\ in_progress_reads' =
           Append(with_last(in_progress_reads, step.val.self),
                  step.val.next_read[1])
    /\ UNCHANGED <<input, chunk, pc, root_tag_name, result>>

\* lines 493-495: the pop and final_value of ComplexReadResult::Done
complete_value == final_value(step.val.self)
popped == SubSeq(in_progress_reads, 1, Len(in_progress_reads) - 1)

\* line 498: working_read.descended_read_complete(value), on the entry
\* the pop uncovered
resumed == descended_read_complete(popped[Len(popped)], complete_value)

\* lines 493-499 as they would be if the finished composite were looked at
\* with last() and never popped: it stays on top and is resumed with its
\* own value
LoopDoneResume_NoPop ==
    /\ pc = "loop"
    /\ IsOk(step)
    /\ step.val.res = "Done"
    /\ popped # <<>>
    /\ pos' = step.pos
    /\ IF ~IsOk(descended_read_complete(step.val.self, complete_value))
       THEN /\ in_progress_reads' = in_progress_reads
            /\ result' =
                   Failed(descended_read_complete(step.val.self, complete_value).err)
            /\ pc' = "done"
       ELSE /\ in_progress_reads' =
                   with_last(in_progress_reads,
                             descended_read_complete(step.val.self,
                                                     complete_value).val)
            /\ UNCHANGED <<pc, result>>
    /\ UNCHANGED <<input, chunk, root_tag_name>>

\* lines 496-499: Some(working_read) => descended_read_complete(value)
LoopDoneResume ==
    /\ pc = "loop"
    /\ IsOk(step)
    /\ step.val.res = "Done"
    /\ popped # <<>>
    /\ pos' = step.pos
    /\ IF ~IsOk(resumed)
       THEN /\ in_progress_reads' = popped
            /\ result' = Failed(resumed.err)
            /\ pc' = "done"
       ELSE /\ in_progress_reads' = with_last(popped, resumed.val)
            /\ UNCHANGED <<pc, result>>
    /\ UNCHANGED <<input, chunk, root_tag_name>>

\* lines 500-505: None => return Ok(RootValue ...)
LoopDoneReturn ==
    /\ pc = "loop"
    /\ IsOk(step)
    /\ step.val.res = "Done"
    /\ popped = <<>>
    /\ pos' = step.pos
    /\ in_progress_reads' = popped
    /\ result' = Returned(root_tag_name[1], complete_value)
    /\ pc' = "done"
    /\ UNCHANGED <<input, chunk, root_tag_name>>

Next ==
    \/ StartFails
    \/ StartSimple
    \/ StartComplex
    \/ LoopFails
    \/ LoopNotFinished
    \/ LoopDescendInto
    \/ LoopDoneResume
    \/ LoopDoneReturn

-----------------------------------------------------------------------------
(* The documents the parser is run on.                                     *)
(*                                                                         *)
(* Well-formed documents are the encodings of all trees of at most         *)
(* MaxNodes values over a few leaves and two entry names, one document of  *)
(* every simple kind as root, as a compound's entry and as a list, chains  *)
(* of nested single-key compounds, and the hello_world.nbt fixture. The    *)
(* malformed ones are every proper prefix and every one-byte change (to a  *)
(* byte of MutBytes) of the well-formed documents of at most MaxMutNodes   *)
(* values. The changed documents hold no byte above 127, so that every    *)
(* 4-byte length the parser reads in this model is below 2^31; lengths of  *)
(* 2^31 and more are outside the model. Last, the same small documents     *)
(* are followed by a few bytes that are not part of them.                  *)

MaxNodes == 3
MaxMutNodes == 2
MaxNest == 5
MaxCount == 2

EncString(s) == <<0, Len(s)>> \o s
EncCount(n) == <<0, 0, 0, n>>
Enc(tag, bytes) == [tag |-> tag, bytes |-> bytes]

Names == {<<97>>, <<98>>}
RootName == <<114>>

Leaves ==
    { Enc(TAG_BYTE, <<5>>),
      Enc(TAG_STRING, EncString(<<104, 105>>)),
      Enc(TAG_LIST, <<TAG_END>> \o EncCount(0)),
      Enc(TAG_LIST, <<TAG_BYTE>> \o EncCount(1) \o <<7>>) }

RECURSIVE Val(_), Body(_), Elems(_, _)

\* the encoded values of exactly n nodes
Val(n) ==
    IF n = 1
    THEN Leaves \cup { Enc(TAG_COMPOUND, <<TAG_END>>),
                       Enc(TAG_LIST, <<TAG_LIST>> \o EncCount(0)),
                       Enc(TAG_LIST, <<TAG_COMPOUND>> \o EncCount(0)) }
    ELSE { Enc(TAG_COMPOUND, b \o <<TAG_END>>) : b \in Body(n - 1) }
         \cup UNION { { Enc(TAG_LIST, <<t>> \o EncCount(e.count) \o e.bytes) :
                            e \in Elems(n - 1, t) } :
                      t \in {TAG_LIST, TAG_COMPOUND} }

\* the encoded entries of a compound, n nodes in all
Body(n) ==
    IF n = 0 THEN { <<>> }
    ELSE UNION { { <<v.tag>> \o EncString(k) \o v.bytes \o rest :
                       v \in Val(i), k \in Names, rest \in Body(n - i) } :
                 i \in 1..n }

\* the encoded elements of a list of lists (t = 9) or of compounds (t = 10)
Elems(n, t) ==
    IF n = 0 THEN { [count |-> 0, bytes |-> <<>>] }
    ELSE UNION { { [count |-> rest.count + 1, bytes |-> v.bytes \o rest.bytes] :
                       v \in { w \in Val(i) : w.tag = t },
                       rest \in Elems(n - i, t) } :
                 i \in 1..n }

Doc(v) == <<v.tag>> \o EncString(RootName) \o v.bytes

TreeDocs(n) == { Doc(v) : v \in UNION { Val(i) : i \in 1..n } }

\* one payload of every simple kind
KindPayload(t) ==
    CASE t = TAG_BYTE -> <<100>>
      [] t = TAG_SHORT -> <<1, 2>>
      [] t = TAG_INT -> <<0, 0, 2, 0>>
      [] t = TAG_LONG -> <<0, 0, 0, 1, 0, 0, 0, 2>>
      [] t = TAG_FLOAT -> <<63, 64, 0, 0>>
      [] t = TAG_DOUBLE -> <<63, 112, 0, 0, 0, 0, 0, 0>>
      [] t = TAG_BYTE_ARRAY -> EncCount(2) \o <<20, 1>>
      [] t = TAG_STRING -> EncString(<<104, 105>>)
      [] t = TAG_INT_ARRAY -> EncCount(2) \o <<0, 0, 0, 1, 0, 0, 1, 0>>

SimpleKinds ==
    {TAG_BYTE, TAG_SHORT, TAG_INT, TAG_LONG, TAG_FLOAT, TAG_DOUBLE,
     TAG_BYTE_ARRAY, TAG_STRING, TAG_INT_ARRAY}

RECURSIVE Repeat(_, _)
Repeat(bs, n) == IF n = 0 THEN <<>> ELSE bs \o Repeat(bs, n - 1)

KindVals ==
    { Enc(t, KindPayload(t)) : t \in SimpleKinds }
    \cup { Enc(TAG_LIST, <<t>> \o EncCount(c) \o Repeat(KindPayload(t), c)) :
               t \in SimpleKinds, c \in 0..MaxCount }
    \cup { Enc(TAG_BYTE_ARRAY, EncCount(0)), Enc(TAG_STRING, EncString(<<>>)),
           Enc(TAG_INT_ARRAY, EncCount(0)) }

KindDocs ==
    { Doc(v) : v \in KindVals }
    \cup { Doc(Enc(TAG_COMPOUND,
                   <<v.tag>> \o EncString(<<97>>) \o v.bytes \o <<TAG_END>>)) :
               v \in KindVals }

\* d nested single-key compounds: d headers, then d End bytes
RECURSIVE NestedBody(_)
NestedBody(d) ==
    IF d = 1 THEN <<TAG_END>>
    ELSE <<TAG_COMPOUND>> \o EncString(<<97>>) \o NestedBody(d - 1) \o <<TAG_END>>

NestedDoc(d) == <<TAG_COMPOUND>> \o EncString(RootName) \o NestedBody(d)
NestedDocs == { NestedDoc(d) : d \in 1..MaxNest }

\* d nested single-key compounds, the innermost holding one list of bytes
RECURSIVE NestedListBody(_)
NestedListBody(d) ==
    IF d = 1
    THEN <<TAG_LIST>> \o EncString(<<98>>) \o <<TAG_BYTE>> \o EncCount(1)
             \o <<7, TAG_END>>
    ELSE <<TAG_COMPOUND>> \o EncString(<<97>>) \o NestedListBody(d - 1)
             \o <<TAG_END>>

NestedListDocs ==
    { <<TAG_COMPOUND>> \o EncString(RootName) \o NestedListBody(d) : d \in 1..MaxNest }

\* tests/hello_world.nbt
HELLO_WORLD ==
    <<10, 0, 11, 104, 101, 108, 108, 111, 32, 119, 111, 114, 108, 100,
      8, 0, 4, 110, 97, 109, 101,
      0, 9, 66, 97, 110, 97, 110, 114, 97, 109, 97,
      0>>

\* payloads with bytes above 127: negative numbers, a two-byte character
HighPayload(t) ==
    CASE t = TAG_BYTE -> <<255>>
      [] t = TAG_SHORT -> <<255, 254>>
      [] t = TAG_INT -> <<255, 255, 255, 255>>
      [] t = TAG_LONG -> <<128, 0, 0, 0, 0, 0, 0, 1>>
      [] t = TAG_FLOAT -> <<191, 128, 0, 0>>
      [] t = TAG_DOUBLE -> <<191, 240, 0, 0, 0, 0, 0, 0>>
      [] t = TAG_BYTE_ARRAY -> EncCount(2) \o <<200, 1>>
      [] t = TAG_STRING -> EncString(<<195, 169>>)
      [] t = TAG_INT_ARRAY -> EncCount(1) \o <<255, 255, 255, 254>>

HighDocs ==
    { Doc(Enc(t, HighPayload(t))) : t \in SimpleKinds }
    \cup { Doc(Enc(TAG_COMPOUND,
                   <<t>> \o EncString(<<97>>) \o HighPayload(t) \o <<TAG_END>>)) :
               t \in SimpleKinds }

\* strings that are not UTF-8, as the root name, a root value, an entry's
\* name and an entry's value
BadStrings == { <<255>>, <<195>>, <<104, 128>> }

BadUtf8Docs ==
    UNION { { <<TAG_BYTE>> \o EncString(s) \o <<5>>,
              Doc(Enc(TAG_STRING, EncString(s))),
              Doc(Enc(TAG_COMPOUND,
                      <<TAG_BYTE>> \o EncString(s) \o <<5, TAG_END>>)),
              Doc(Enc(TAG_COMPOUND,
                      <<TAG_STRING>> \o EncString(<<97>>) \o EncString(s)
                          \o <<TAG_END>>)) } :
            s \in BadStrings }

WellFormedDocs ==
    TreeDocs(MaxNodes) \cup KindDocs \cup HighDocs \cup NestedDocs
    \cup NestedListDocs \cup {HELLO_WORLD}

MutBytes == {0, 1, 3, 9, 10, 11, 12, 127}

Prefixes(docs) == UNION { { SubSeq(d, 1, k) : k \in 0..Len(d) } : d \in docs }

Changed(docs) ==
    UNION { { [d EXCEPT ![i] = b] : i \in 1..Len(d), b \in MutBytes } : d \in docs }

MutBase ==
    TreeDocs(MaxMutNodes) \cup KindDocs \cup NestedDocs \cup NestedListDocs
    \cup {HELLO_WORLD}

\* bytes that follow a document in its stream
Trails == { <<0>>, <<10>>, <<1, 2, 3>> }

Trailed(docs) == { d \o t : d \in docs, t \in Trails }

Inputs ==
    WellFormedDocs \cup BadUtf8Docs
    \cup Prefixes(MutBase \cup HighDocs) \cup Changed(MutBase)
    \cup Trailed(MutBase)

Chunks == {0, 1}

Init ==
    /\ input \in Inputs
    /\ chunk \in Chunks
    /\ pos = 0
    /\ pc = "start"
    /\ root_tag_name = None
    /\ in_progress_reads = <<>>
    /\ result = Running

Spec == Init /\ [][Next]_vars

-----------------------------------------------------------------------------
(* A reference decoder: plain recursive descent over a byte sequence, by   *)
(* the wire format (every value is decoded by a call that returns when the *)
(* whole value, nested values included, has been read). It is what the     *)
(* results of parse_nbt_stream are compared with, and is defined on        *)
(* well-formed input only: anything else is Bad.                           *)
(*                                                                         *)
(* A result is [ok, val, pos, spans]: spans holds, for every composite     *)
(* (a compound, a list of lists, a list of compounds) inside the value,    *)
(* where its content starts and ends, and entries the (key, value) pairs   *)
(* of every compound in stream order.                                      *)

Bad == [ok |-> FALSE, val |-> <<>>, pos |-> 0, spans |-> {}, entries |-> {}]
Good(v, p, spans, entries) ==
    [ok |-> TRUE, val |-> v, pos |-> p, spans |-> spans, entries |-> entries]

Has(bs, p, n) == p + n <= Len(bs)

\* a mapping with key bound to value, whatever it was bound to before
RefBind(map, key, value) ==
    [k \in DOMAIN map \cup {key} |-> IF k = key THEN value ELSE map[k]]
Bytes(bs, p, n) == SubSeq(bs, p + 1, p + n)

RefWidth(tag) ==
    CASE tag = TAG_BYTE -> 1 [] tag = TAG_SHORT -> 2 [] tag = TAG_INT -> 4
      [] tag = TAG_LONG -> 8 [] tag = TAG_FLOAT -> 4 [] tag = TAG_DOUBLE -> 8

RefNumber(tag, bs) ==
    CASE tag = TAG_BYTE -> Value("Byte", Signed8(bs[1]))
      [] tag = TAG_SHORT -> Value("Short", BE_i16(bs))
      [] tag = TAG_INT -> Value("Int", BE_i32(bs))
      [] tag = TAG_LONG -> Value("Long", BE_i64(bs))
      [] tag = TAG_FLOAT -> Value("Float", BE_i32(bs))
      [] tag = TAG_DOUBLE -> Value("Double", BE_i64(bs))

\* a String: 2-byte length, then that many bytes of UTF-8
RefString(bs, p) ==
    IF ~Has(bs, p, 2) THEN Bad
    ELSE LET n == BE_u16(Bytes(bs, p, 2))
         IN  IF Has(bs, p + 2, n) /\ ValidUtf8(Bytes(bs, p + 2, n), 1)
             THEN Good(Bytes(bs, p + 2, n), p + 2 + n, {}, {})
             ELSE Bad

RECURSIVE RefInts(_, _, _, _)
RefInts(bs, p, n, acc) ==
    IF n = 0 THEN Good(acc, p, {}, {})
    ELSE IF ~Has(bs, p, 4) THEN Bad
    ELSE RefInts(bs, p + 4, n - 1, Append(acc, BE_i32(Bytes(bs, p, 4))))

RECURSIVE RefValue(_, _, _), RefCompound(_, _, _, _, _, _), RefItems(_, _, _, _, _, _, _, _)

\* the value of tag-type tag encoded at offset p of bs
RefValue(bs, tag, p) ==
    CASE tag \in {TAG_BYTE, TAG_SHORT, TAG_INT, TAG_LONG, TAG_FLOAT, TAG_DOUBLE} ->
            IF Has(bs, p, RefWidth(tag))
            THEN Good(RefNumber(tag, Bytes(bs, p, RefWidth(tag))),
                      p + RefWidth(tag), {}, {})
            ELSE Bad
      [] tag = TAG_BYTE_ARRAY ->
            IF ~Has(bs, p, 4) THEN Bad
            ELSE LET n == BE_u32(Bytes(bs, p, 4))
                 IN  IF Has(bs, p + 4, n)
                     THEN Good(Value("ByteArray", Bytes(bs, p + 4, n)), p + 4 + n,
                               {}, {})
                     ELSE Bad
      [] tag = TAG_STRING ->
            LET r == RefString(bs, p)
            IN  IF r.ok THEN Good(Value("String", r.val), r.pos, {}, {}) ELSE Bad
      [] tag = TAG_INT_ARRAY ->
            IF ~Has(bs, p, 4) THEN Bad
            ELSE LET r == RefInts(bs, p + 4, BE_u32(Bytes(bs, p, 4)), <<>>)
                 IN  IF r.ok THEN Good(Value("IntArray", r.val), r.pos, {}, {})
                     ELSE Bad
      [] tag = TAG_LIST ->
            IF ~Has(bs, p, 5) THEN Bad
            ELSE LET inner == bs[p + 1]
                     n == BE_u32(Bytes(bs, p + 1, 4))
                 IN  IF inner = TAG_END
                     THEN IF n = 0
                          THEN Good(Value("List", List("Empty", <<>>)), p + 5, {}, {})
                          ELSE Bad
                     ELSE IF inner \in 1..11
                     THEN RefItems(bs, inner, p + 5, p + 5, n, <<>>, {}, {})
                     ELSE Bad
      [] tag = TAG_COMPOUND -> RefCompound(bs, p, p, <<>>, {}, {})
      [] OTHER -> Bad

\* the entries of a compound from offset p on, up to its End byte; start
\* is where the compound's content began, map the entries so far
RefCompound(bs, start, p, map, spans, entries) ==
    IF ~Has(bs, p, 1) THEN Bad
    ELSE IF bs[p + 1] = TAG_END
    THEN Good(Value("Compound", map), p + 1,
              spans \cup {[kind |-> "Compound", from |-> start, to |-> p + 1]},
              entries)
    ELSE LET name == RefString(bs, p + 1)
         IN  IF ~name.ok THEN Bad
             ELSE LET v == RefValue(bs, bs[p + 1], name.pos)
                  IN  IF ~v.ok THEN Bad
                      ELSE RefCompound(
                               bs, start, v.pos, RefBind(map, name.val, v.val),
                               spans \cup v.spans,
                               entries \cup v.entries
                                   \cup {[of |-> start, at |-> p,
                                          key |-> name.val, value |-> v.val]})

\* the n elements of a list of inner tag-type inner from offset p on; start
\* is where the list's first element began
RefItems(bs, inner, start, p, n, acc, spans, entries) ==
    IF n = 0
    THEN Good(Value("List", List(IF inner = TAG_LIST THEN "List"
                                 ELSE IF inner = TAG_COMPOUND THEN "Compound"
                                 ELSE ListKindOf(inner), acc)),
              p,
              IF inner \in {TAG_LIST, TAG_COMPOUND}
              THEN spans \cup {[kind |-> "List", from |-> start, to |-> p]}
              ELSE spans,
              entries)
    ELSE LET v == RefValue(bs, inner, p)
         IN  IF ~v.ok THEN Bad
             ELSE RefItems(bs, inner, start, v.pos, n - 1, Append(acc, v.val.val),
                           spans \cup v.spans, entries \cup v.entries)

\* a document: root tag, root name, root value
RefDocument(bs) ==
    IF ~Has(bs, 0, 1) THEN Bad
    ELSE LET name == RefString(bs, 1)
         IN  IF ~name.ok THEN Bad
             ELSE LET v == RefValue(bs, bs[1], name.pos)
                  IN  IF ~v.ok THEN Bad
                      ELSE Good([name |-> name.val, value |-> v.val], v.pos,
                                v.spans, v.entries)

-----------------------------------------------------------------------------
(* What the claims speak of *)

Done == pc = "done"
ReturnedOk == result.status = "Ok"
Ref == RefDocument(input)

\* the root tag-type is one the format calls composite and the root value is
\* one the descent engine is seeded with
CompositeRoot ==
    /\ Ref.ok
    /\ Ref.val.value.kind \in {"Compound", "List"}
    /\ Ref.val.value.kind = "List" => Ref.val.value.val.kind \in {"List", "Compound"}

\* the source fills every buffer it is given while bytes are left
FillingSource == chunk = 0

\* the (key, value) entries, in Ref, of the compound whose content starts at from
EntriesOf(from) == { en \in Ref.entries : en.of = from }

\* the spans of Ref that are open at offset p: begun and not yet ended
Open(p) == { sp \in Ref.spans : sp.from <= p /\ p < sp.to }

\* the root name as the parser reads it, and where the root value starts
RootName_ == read_nbt_string(1)
RootTag == input[1]

-----------------------------------------------------------------------------
\* C1: for every well-formed document whose root is a composite, read from
\* a source that fills its buffers, parse_nbt_stream returns Ok(RootValue)
\* with the root name and the tree a recursive-descent decoding of the same
\* bytes gives, and it returns with the explicit stack empty.
C1_CompositeRootParsed ==
    (Done /\ FillingSource /\ CompositeRoot) =>
        /\ ReturnedOk
        /\ result.name = Ref.val.name
        /\ result.value = Ref.val.value
        /\ in_progress_reads = <<>>

\* the kinds the format calls simple
SimpleValueKinds ==
    {"Byte", "Short", "Int", "Long", "Float", "Double", "ByteArray", "String",
     "IntArray"}

\* the root is a Compound whose entries are all simple-valued, with
\* pairwise distinct keys
FlatRootCompound ==
    /\ Ref.ok
    /\ Ref.val.value.kind = "Compound"
    /\ \A en \in Ref.entries : en.value.kind \in SimpleValueKinds
    /\ \A en \in Ref.entries : \A other \in Ref.entries :
           en.key = other.key => en.at = other.at

\* "hello world", "name", "Bananrama"
HelloWorldName == <<104, 101, 108, 108, 111, 32, 119, 111, 114, 108, 100>>
NameKey == <<110, 97, 109, 101>>
Bananrama == <<66, 97, 110, 97, 110, 114, 97, 109, 97>>

\* C2: a document whose root is a Compound of k simple-valued entries with
\* pairwise distinct keys parses to Ok(RootValue) with the root name and a
\* Compound of exactly those k keys, each mapped to its decoded value; the
\* fixture parses to "hello world" with the one key "name" mapped to the
\* String "Bananrama".
C2_FlatCompoundParsed ==
    /\ (Done /\ FillingSource /\ FlatRootCompound) =>
           /\ ReturnedOk
           /\ result.name = Ref.val.name
           /\ result.value.kind = "Compound"
           /\ DOMAIN result.value.val = { en.key : en \in Ref.entries }
           /\ Cardinality(DOMAIN result.value.val) = Cardinality(Ref.entries)
           /\ \A en \in Ref.entries : result.value.val[en.key] = en.value
    /\ (Done /\ FillingSource /\ input = HELLO_WORLD) =>
           /\ ReturnedOk
           /\ result.name = HelloWorldName
           /\ result.value.kind = "Compound"
           /\ DOMAIN result.value.val = {NameKey}
           /\ result.value.val[NameKey] = Value("String", Bananrama)

\* the part of C2 that the fixture's test asserts
C2_Fixture ==
    (Done /\ FillingSource /\ input = HELLO_WORLD) =>
        result = Returned(HelloWorldName,
                          Value("Compound", NameKey :> Value("String", Bananrama)))

-----------------------------------------------------------------------------
\* C3: a document of D nested single-key compounds, read from a source
\* that fills its buffers, parses successfully, and while it is parsed the
\* stack holds exactly the compounds that are open at the cursor: a
\* continue_read that has read a nested compound's header has returned to
\* the loop without reading any of that compound's content.
C3_StackIsNesting ==
    (input \in NestedDocs /\ FillingSource) =>
        /\ pc = "loop" =>
               /\ Len(in_progress_reads) = Cardinality(Open(pos))
               /\ Len(in_progress_reads) <= Cardinality(Ref.spans)
               /\ \A i \in 1..Len(in_progress_reads) :
                      in_progress_reads[i].type = "ReadingCompound"
        /\ Done =>
               /\ ReturnedOk
               /\ in_progress_reads = <<>>
               /\ pos = Len(input)

\* the deepest document of nested compounds is fully open
C3_Witness ==
    /\ input = NestedDoc(MaxNest)
    /\ FillingSource
    /\ pc = "loop"
    /\ Len(in_progress_reads) = MaxNest
    /\ Cardinality(Open(pos)) = MaxNest

-----------------------------------------------------------------------------
\* C4: tag-type 11 followed by a count n and n 4-byte integers, as the root
\* tag or as a compound entry's tag, is decoded to the simple Value
\* IntArray of those integers and the parse completes normally.
C4_IntArrayDecoded ==
    (/\ Done
     /\ FillingSource
     /\ Ref.ok
     /\ \/ Ref.val.value.kind = "IntArray"
        \/ \E en \in Ref.entries : en.value.kind = "IntArray") =>
        /\ ReturnedOk
        /\ result.value = Ref.val.value

-----------------------------------------------------------------------------
\* the stream ends inside a fixed-width field of the root: the tag byte,
\* the 2-byte length of the root name, the payload of a numeric root value
\* or the 4-byte length of a root ByteArray, IntArray or List
NumericTags == {TAG_BYTE, TAG_SHORT, TAG_INT, TAG_LONG, TAG_FLOAT, TAG_DOUBLE}

EndsInFixedWidthField ==
    \/ Len(input) < 3
    \/ /\ IsOk(RootName_)
       /\ \/ RootTag \in NumericTags /\ ~Has(input, RootName_.pos, RefWidth(RootTag))
          \/ RootTag \in {TAG_BYTE_ARRAY, TAG_INT_ARRAY} /\ ~Has(input, RootName_.pos, 4)
          \/ RootTag = TAG_LIST /\ ~Has(input, RootName_.pos, 5)

\* C5: when the stream ends before a fixed-width field is complete, the
\* parse fails with UnexpectedEof, not with IoError.
C5_FixedWidthEof ==
    (Done /\ EndsInFixedWidthField) =>
        /\ result.status = "Err"
        /\ result.err.e = "UnexpectedEof"

-----------------------------------------------------------------------------
\* C6: tag-type End as the root tag-type, with a readable root name after
\* it, fails with InvalidTagType, not with UnknownTagType.
C6_RootEndInvalid ==
    (Done /\ Len(input) >= 1 /\ RootTag = TAG_END /\ IsOk(RootName_)) =>
        /\ result.status = "Err"
        /\ result.err.e = "InvalidTagType"

-----------------------------------------------------------------------------
\* the 4-byte count of the list header at offset h, and its inner tag-type
InnerAt(h) == input[h + 1]
CountAt(h) == BE_u32(Bytes(input, h + 1, 4))
KnownTags == 0..11

\* a list header with inner tag-type End lies at offset h
EndListAt(h) == Has(input, h, 5) /\ InnerAt(h) = TAG_END

\* the name of the first entry of the root compound
FirstEntryName == read_nbt_string(RootName_.pos + 1)

\* the root is a list whose header is at the root value's offset
RootList == Len(input) >= 1 /\ RootTag = TAG_LIST /\ IsOk(RootName_)

\* the root is a compound whose first entry is a list with a readable name
FirstEntryList ==
    /\ Len(input) >= 1
    /\ RootTag = TAG_COMPOUND
    /\ IsOk(RootName_)
    /\ Has(input, RootName_.pos, 1)
    /\ input[RootName_.pos + 1] = TAG_LIST
    /\ IsOk(FirstEntryName)

\* the root is a list of lists of at least one element
RootListOfLists ==
    /\ RootList
    /\ Has(input, RootName_.pos, 5)
    /\ InnerAt(RootName_.pos) = TAG_LIST
    /\ CountAt(RootName_.pos) >= 1

EmptyList == Value("List", List("Empty", <<>>))

\* C7: a list header with inner tag-type End decodes, with count 0, to the
\* simple value List::Empty and no composite state, and fails, with any
\* count above 0, with InvalidTagType before any element byte is read: as
\* the root value, as the first entry of the root compound and as the first
\* element of a root list of lists.
C7_EndInnerType ==
    /\ (Done /\ RootList /\ EndListAt(RootName_.pos)) =>
           IF CountAt(RootName_.pos) = 0
           THEN /\ result = Returned(RootName_.val, EmptyList)
                /\ in_progress_reads = <<>>
                /\ pos = RootName_.pos + 5
           ELSE /\ result = Failed(InvalidTagType)
                /\ pos = RootName_.pos + 5
    /\ (Done /\ FirstEntryList /\ EndListAt(FirstEntryName.pos)) =>
           LET h == FirstEntryName.pos
           IN  IF CountAt(h) = 0
               THEN (Has(input, h + 5, 1) /\ input[h + 6] = TAG_END) =>
                        /\ result = Returned(RootName_.val,
                                             Value("Compound",
                                                   FirstEntryName.val :> EmptyList))
                        /\ pos = h + 6
               ELSE /\ result = Failed(InvalidTagType)
                    /\ pos = h + 5
                    /\ Len(in_progress_reads) = 1
    /\ (RootListOfLists /\ EndListAt(RootName_.pos + 5)) =>
           LET h == RootName_.pos + 5
           IN  IF CountAt(h) = 0
               THEN (pc = "loop" /\ pos = h + 5) =>
                        in_progress_reads =
                            <<ReadingListOfList(CountAt(RootName_.pos) - 1,
                                                <<List("Empty", <<>>)>>)>>
               ELSE Done => /\ result = Failed(InvalidTagType)
                            /\ pos = h + 5

\* an entry's list header End with a count above 0 has been refused
C7_Witness ==
    /\ Done
    /\ FirstEntryList
    /\ EndListAt(FirstEntryName.pos)
    /\ CountAt(FirstEntryName.pos) > 0
    /\ result = Failed(InvalidTagType)

-----------------------------------------------------------------------------
\* what one read of the source delivers of length bytes asked for at start
Delivered(start, length) ==
    LET left == Len(input) - start
        there == IF length <= left THEN length ELSE left
    IN  IF chunk = 0 \/ there <= chunk THEN there ELSE chunk

\* the root value is a String, or a ByteArray, with its length prefix read
RootString ==
    /\ Len(input) >= 1 /\ RootTag = TAG_STRING /\ IsOk(RootName_)
    /\ Has(input, RootName_.pos, 2)
RootByteArray ==
    /\ Len(input) >= 1 /\ RootTag = TAG_BYTE_ARRAY /\ IsOk(RootName_)
    /\ Has(input, RootName_.pos, 4)

\* the payload of declared length, read at start as a value of kind: a
\* read that delivers less fails with UnexpectedEof, the cursor moved by
\* what that one read delivered; a declared length of 0 gives the empty value
PayloadRead(start, length, kind) ==
    /\ Delivered(start, length) < length =>
           /\ result = Failed(UnexpectedEof(length, Delivered(start, length)))
           /\ pos = start + Delivered(start, length)
    /\ length = 0 =>
           /\ result = Returned(RootName_.val, Value(kind, <<>>))
           /\ pos = start

\* C8: a String or ByteArray whose declared length exceeds the bytes left,
\* or whose payload the source's one read delivers only in part, fails with
\* UnexpectedEof and no second read is issued; a declared length of 0
\* succeeds with an empty value.
C8_ShortPayloadRead ==
    /\ (Done /\ Len(input) >= 3) =>
           LET length == BE_u16(Bytes(input, 1, 2))
           IN  Delivered(3, length) < length =>
                   /\ result = Failed(UnexpectedEof(length, Delivered(3, length)))
                   /\ pos = 3 + Delivered(3, length)
    /\ (Done /\ RootString) =>
           PayloadRead(RootName_.pos + 2,
                       BE_u16(Bytes(input, RootName_.pos, 2)), "String")
    /\ (Done /\ RootByteArray) =>
           PayloadRead(RootName_.pos + 4,
                       BE_u32(Bytes(input, RootName_.pos, 4)), "ByteArray")

\* a String whose two bytes are both there is refused because the source
\* delivered one of them
C8_Witness ==
    /\ Done
    /\ RootString
    /\ chunk = 1
    /\ BE_u16(Bytes(input, RootName_.pos, 2)) = 2
    /\ Has(input, RootName_.pos + 2, 2)
    /\ result = Failed(UnexpectedEof(2, 1))
    /\ pos = RootName_.pos + 3

-----------------------------------------------------------------------------
\* where the content of the innermost compound of the chain of compound
\* headers (tag 10, name) that begins at offset p starts, and how long the
\* chain is
RECURSIVE ChainEnd(_), ChainLen(_)
ChainEnd(p) ==
    IF Has(input, p, 1) /\ input[p + 1] = TAG_COMPOUND /\ IsOk(read_nbt_string(p + 1))
    THEN ChainEnd(read_nbt_string(p + 1).pos)
    ELSE p
ChainLen(p) ==
    IF Has(input, p, 1) /\ input[p + 1] = TAG_COMPOUND /\ IsOk(read_nbt_string(p + 1))
    THEN 1 + ChainLen(read_nbt_string(p + 1).pos)
    ELSE 0

\* the entry after the chain of compound headers the document starts with:
\* its offset, its tag and its name
ChainEntry == ChainEnd(0)
ChainEntryTag == input[ChainEntry + 1]
ChainEntryName == read_nbt_string(ChainEntry + 1)
InCompoundChain ==
    /\ ChainLen(0) >= 1
    /\ Has(input, ChainEntry, 1)
    /\ ChainEntryTag # TAG_END
    /\ IsOk(ChainEntryName)

\* C9: a tag-type byte c outside 0..11 where a value's type is expected
\* fails the parse with UnknownTagType(c): as the root tag, as the tag of a
\* compound's entry at any depth of a chain of nested compounds, and as the
\* inner tag-type of a list header (of the root, of such an entry, of an
\* element of a list of lists).
C9_UnknownTagType ==
    /\ (Done /\ Len(input) >= 1 /\ RootTag \notin KnownTags /\ IsOk(RootName_)) =>
           result = Failed(UnknownTagType(RootTag))
    /\ (Done /\ InCompoundChain /\ ChainEntryTag \notin KnownTags) =>
           /\ result = Failed(UnknownTagType(ChainEntryTag))
           /\ Len(in_progress_reads) = ChainLen(0)
    /\ (/\ Done /\ InCompoundChain /\ ChainEntryTag = TAG_LIST
        /\ Has(input, ChainEntryName.pos, 5)
        /\ InnerAt(ChainEntryName.pos) \notin KnownTags) =>
           /\ result = Failed(UnknownTagType(InnerAt(ChainEntryName.pos)))
           /\ Len(in_progress_reads) = ChainLen(0)
    /\ (/\ Done /\ RootList /\ Has(input, RootName_.pos, 5)
        /\ InnerAt(RootName_.pos) \notin KnownTags) =>
           result = Failed(UnknownTagType(InnerAt(RootName_.pos)))
    /\ (/\ Done /\ RootListOfLists /\ Has(input, RootName_.pos + 5, 5)
        /\ InnerAt(RootName_.pos + 5) \notin KnownTags) =>
           result = Failed(UnknownTagType(InnerAt(RootName_.pos + 5)))

\* an unknown tag three compounds deep has been refused with its code
C9_Witness ==
    /\ Done
    /\ InCompoundChain
    /\ ChainLen(0) >= 3
    /\ ChainEntryTag = 12
    /\ result = Failed(UnknownTagType(12))

-----------------------------------------------------------------------------
\* the working read is a compound that continue_read finds finished
CompoundFinishes ==
    /\ pc = "loop"
    /\ working_read.type = "ReadingCompound"
    /\ IsOk(step)
    /\ step.val.res = "Done"

\* the compound of Ref whose End byte is the one continue_read has just read
Finishing == { sp \in Ref.spans : sp.kind = "Compound" /\ sp.to = step.pos }

\* en is the last entry of its compound with its key
LastOfKey(en) ==
    \A other \in EntriesOf(en.of) : other.key = en.key => other.at <= en.at

\* C10: a finished Compound has one entry per key of its byte stream, and
\* the value of a key encoded more than once is the one encoded last, be
\* the values simple or composite.
C10_LastWriteWins ==
    (Ref.ok /\ CompoundFinishes) =>
        /\ Cardinality(Finishing) = 1
        /\ \A sp \in Finishing :
               /\ DOMAIN step.val.self.value = { en.key : en \in EntriesOf(sp.from) }
               /\ \A en \in EntriesOf(sp.from) :
                      LastOfKey(en) => step.val.self.value[en.key] = en.value

\* a compound finishes that held a composite and then a simple value under
\* one key
C10_Witness ==
    /\ Ref.ok
    /\ CompoundFinishes
    /\ \E sp \in Finishing :
           \E en \in EntriesOf(sp.from) : \E other \in EntriesOf(sp.from) :
               /\ en.key = other.key
               /\ en.at < other.at
               /\ en.value.kind = "Compound"
               /\ other.value.kind = "Byte"

-----------------------------------------------------------------------------
\* C11: a failure of any decoding step, at any depth, ends the parse at
\* once with that same failure: the failing call of lines 469-472 or of
\* continue_read is the last thing the parse does, the reader stays where
\* that call left it, the stack is left as it was (nothing on it is
\* finalized or resumed), the outcome carries no name and no value, and
\* nothing happens after the parse has ended.
C11_FailureEndsParse ==
    [][/\ (pc = "start" /\ ~IsOk(root_read)) =>
              /\ pc' = "done"
              /\ result'.status # "Ok"
              /\ result'.err = root_read.err
              /\ result'.name = <<>> /\ result'.value = <<>>
              /\ in_progress_reads' = <<>>
              /\ pos' = root_read.pos
       /\ (pc = "loop" /\ ~IsOk(step)) =>
              /\ pc' = "done"
              /\ result'.status # "Ok"
              /\ result'.err = step.err
              /\ result'.name = <<>> /\ result'.value = <<>>
              /\ in_progress_reads' = in_progress_reads
              /\ pos' = step.pos
       /\ pc # "done"]_vars

\* a parse has failed with an error with two or more composites in progress
C11_Witness ==
    /\ Done
    /\ result.status = "Err"
    /\ Len(in_progress_reads) >= 2
    /\ result.name = <<>>

-----------------------------------------------------------------------------
\* the loop is about to step a list of lists or a list of compounds, and
\* the step does not fail
ListStep ==
    /\ pc = "loop"
    /\ working_read.type \in {"ReadingListOfList", "ReadingListOfCompound"}
    /\ IsOk(step)

\* C13 as stated: a step of a list of lists or of compounds with elements
\* remaining reports DescendInto, having counted the element, and never
\* NotFinished; it reports Done only with no element remaining.
C13_ListStepDescends ==
    ListStep =>
        IF working_read.items_remaining # 0
        THEN /\ step.val.res = "DescendInto"
             /\ step.val.self.items_remaining = working_read.items_remaining - 1
        ELSE step.val.res = "Done"

\* C13, amended: such a step reports Done exactly when no element remains.
\* Otherwise it counts one element; for a list of compounds it reports
\* DescendInto a fresh compound, having read nothing; for a list of lists
\* it reads the element's header and reports DescendInto when the element
\* is itself a list of lists or of compounds, and otherwise decodes the
\* whole element, appends it and reports NotFinished.
C13_ListStepAmended ==
    ListStep =>
        IF working_read.items_remaining = 0
        THEN /\ step.val.res = "Done"
             /\ step.val.self = working_read
             /\ step.pos = pos
        ELSE /\ step.val.res # "Done"
             /\ step.val.self.items_remaining = working_read.items_remaining - 1
             /\ IF working_read.type = "ReadingListOfCompound"
                THEN /\ step.val.res = "DescendInto"
                     /\ step.val.next_read = Some(ReadingCompound(<<>>, None))
                     /\ step.val.self.value = working_read.value
                     /\ step.pos = pos
                ELSE IF InnerAt(pos) \in {TAG_LIST, TAG_COMPOUND}
                THEN /\ step.val.res = "DescendInto"
                     /\ step.val.next_read[1].type =
                            (IF InnerAt(pos) = TAG_LIST THEN "ReadingListOfList"
                             ELSE "ReadingListOfCompound")
                     /\ step.val.next_read[1].items_remaining = CountAt(pos)
                     /\ step.val.next_read[1].value = <<>>
                     /\ step.val.self.value = working_read.value
                     /\ step.pos = pos + 5
                ELSE /\ step.val.res = "NotFinished"
                     /\ Len(step.val.self.value) = Len(working_read.value) + 1
                     /\ SubSeq(step.val.self.value, 1, Len(working_read.value)) =
                            working_read.value
                     /\ step.pos >= pos + 5

\* a list of lists with an element remaining is about to take in an
\* element that is a list of bytes
C13_Witness ==
    /\ ListStep
    /\ working_read.type = "ReadingListOfList"
    /\ working_read.items_remaining # 0
    /\ InnerAt(pos) = TAG_BYTE
    /\ step.val.res = "NotFinished"

-----------------------------------------------------------------------------
\* the entries of the stack below index n are the same after the step
BelowUnchanged(n) ==
    \A i \in 1..(n - 1) :
        i <= Len(in_progress_reads') /\ in_progress_reads'[i] = in_progress_reads[i]

\* the string that ends at offset e of the input is name, behind its length
NameEndsAt(name, e) ==
    /\ e >= Len(name) + 2
    /\ Bytes(input, e - Len(name), Len(name)) = name
    /\ BE_u16(Bytes(input, e - Len(name) - 2, 2)) = Len(name)

\* parent folded with the finished value v of the child it descended into
Folded(parent, v) ==
    IF parent.type = "ReadingCompound"
    THEN [parent EXCEPT !.name_of_current_value = None,
                        !.value = RefBind(@, parent.name_of_current_value[1], v)]
    ELSE [parent EXCEPT !.value = Append(@, v.val)]

\* C14: the stack pairs every DescendInto with one resume. A push leaves
\* the composite that descended right below its child, a compound with its
\* pending name set to the entry name just read; nothing touches a composite
\* while it is below the top; the pop of its child is, in the same
\* iteration, the one descended_read_complete on it, which for a compound
\* stores the child's value under the pending name and clears the name, and
\* for a list appends it. So a compound has a pending name exactly while
\* it is below the top.
C14_DescendThenResume ==
    [][pc = "loop" =>
          LET n == Len(in_progress_reads)
              m == Len(in_progress_reads')
          IN  /\ m \in {n - 1, n, n + 1}
              /\ BelowUnchanged(IF m = n - 1 THEN n - 1 ELSE n)
              /\ m = n + 1 =>
                     LET parent == in_progress_reads'[n]
                         child == in_progress_reads'[m]
                     IN  /\ parent.type = working_read.type
                         /\ parent.type = "ReadingCompound" =>
                                /\ parent.name_of_current_value # None
                                /\ NameEndsAt(
                                       parent.name_of_current_value[1],
                                       IF child.type = "ReadingCompound"
                                       THEN pos' ELSE pos' - 5)
                         /\ child.type = "ReadingCompound" =>
                                child.name_of_current_value = None
              /\ (m = n - 1 /\ m >= 1 /\ pc' = "loop") =>
                     /\ in_progress_reads[m].type = "ReadingCompound" =>
                            in_progress_reads[m].name_of_current_value # None
                     /\ in_progress_reads'[m] =
                            Folded(in_progress_reads[m], complete_value)
              /\ \A i \in 1..m :
                     in_progress_reads'[i].type = "ReadingCompound" =>
                         (in_progress_reads'[i].name_of_current_value # None
                              <=> (i < m /\ pc' = "loop") \/ (pc' = "done" /\ i < n))]_vars

\* the compound on top of the stack has been resumed with a composite
\* child: it holds a compound or a list of lists or of compounds under the
\* name that was pending, and no pending name
C14_Witness ==
    /\ pc = "loop"
    /\ working_read.type = "ReadingCompound"
    /\ working_read.name_of_current_value = None
    /\ \E k \in DOMAIN working_read.value :
           \/ working_read.value[k].kind = "Compound"
           \/ /\ working_read.value[k].kind = "List"
              /\ working_read.value[k].val.kind \in {"List", "Compound"}

-----------------------------------------------------------------------------
\* the composite on top of the stack is a compound nothing has been read
\* of yet
Fresh(stack) ==
    /\ stack # <<>>
    /\ stack[Len(stack)].type = "ReadingCompound"
    /\ stack[Len(stack)].value = <<>>
    /\ stack[Len(stack)].name_of_current_value = None

\* what an iteration of the loop always lowers: the bytes left count four
\* each, every stack entry one, and a fresh compound on top two less
Rank(p, stack) ==
    4 * (Len(input) - p) + Len(stack) - (IF Fresh(stack) THEN 2 ELSE 0)

\* the parse has a step to take: the read of the root, or a continue_read
\* on a stack that is not empty, whose outcome the loop has an arm for
HasNextStep ==
    \/ pc = "start"
    \/ /\ pc = "loop"
       /\ in_progress_reads # <<>>
       /\ IsOk(step) =>
              /\ step.val.res \in {"NotFinished", "DescendInto", "Done"}
              /\ step.val.res = "DescendInto" => step.val.next_read # None

\* C15 as stated: every iteration of the loop that does not end the parse
\* consumes at least one byte of input or pops one entry of the stack.
C15_ConsumesOrPops ==
    [][pc = "loop" =>
          \/ pc' = "done"
          \/ pos' > pos
          \/ Len(in_progress_reads') < Len(in_progress_reads)]_vars

\* C15, amended: on every finite input the parse ends. An iteration of the
\* loop that does not end the parse consumes at least one byte, or pops one
\* entry, or, stepping a list of compounds, pushes a fresh compound without
\* consuming anything; the iteration after such a push steps that compound
\* and consumes a byte or ends the parse. So the loop cannot run forever:
\* a parse that has not ended always has a next step, Rank falls with
\* every iteration and is never below -1 in the loop, and the reader
\* never moves back or past the end of the input.
C15_Terminates ==
    /\ [](~Done => HasNextStep)
    /\ [](pc = "loop" => Rank(pos, in_progress_reads) >= -1)
    /\ [](pos <= Len(input))
    /\ [][pos' >= pos]_vars
    /\ [][(pc = "loop" /\ pc' = "loop") =>
              /\ Rank(pos', in_progress_reads') < Rank(pos, in_progress_reads)
              /\ \/ pos' > pos
                 \/ Len(in_progress_reads') < Len(in_progress_reads)
                 \/ /\ working_read.type = "ReadingListOfCompound"
                    /\ Len(in_progress_reads') = Len(in_progress_reads) + 1
                    /\ Fresh(in_progress_reads')
              /\ Fresh(in_progress_reads) => pos' > pos]_vars

\* a list of compounds has just pushed a fresh compound, and the reader
\* stands where the list's header ended
C15_Witness ==
    /\ pc = "loop"
    /\ Len(in_progress_reads) >= 2
    /\ Fresh(in_progress_reads)
    /\ in_progress_reads[Len(in_progress_reads) - 1].type = "ReadingListOfCompound"
    /\ in_progress_reads[Len(in_progress_reads) - 1].value = <<>>
    /\ Has(input, pos - 5, 5)
    /\ InnerAt(pos - 5) = TAG_COMPOUND

-----------------------------------------------------------------------------
\* the List variants by inner tag-type, 1 (Byte) to 11 (IntArray)
VariantOf ==
    <<"Byte", "Short", "Int", "Long", "Float", "Double", "ByteArray", "String",
      "List", "Compound", "IntArray">>

\* the elements the list header at offset h declares, by the wire format
ItemsAt(h) ==
    RefItems(input, InnerAt(h), h + 5, h + 5, CountAt(h), <<>>, {}, {})

\* a list header with a simple inner tag-type lies at offset h, and the
\* elements it declares are all there
SimpleListAt(h) ==
    /\ Has(input, h, 5)
    /\ InnerAt(h) \in SimpleKinds
    /\ ItemsAt(h).ok

\* v is the list the header at offset h declares: the variant of its inner
\* tag-type, with as many elements as declared, each as encoded, in order
IsListAt(v, h) ==
    /\ v = ItemsAt(h).val
    /\ v.kind = "List"
    /\ v.val.kind = VariantOf[InnerAt(h)]
    /\ Len(v.val.val) = CountAt(h)

\* C16: a list whose inner tag-type is simple is decoded by the dispatch
\* that reads its header, whole and with no composite state for it, into
\* the List variant of that tag-type with the declared number of elements
\* in stream order (also for a count of 0, which is not List::Empty): as
\* the root value the parse returns it without entering the loop, as the
\* only entry of the root compound the stack never grows beyond that
\* compound, and as the first element of a root list of lists it is
\* appended by the step that reads its header.
C16_SimpleListInOneStep ==
    FillingSource =>
        /\ (RootList /\ SimpleListAt(RootName_.pos)) =>
               /\ pc # "loop"
               /\ in_progress_reads = <<>>
               /\ Done =>
                      /\ ReturnedOk
                      /\ result.name = RootName_.val
                      /\ IsListAt(result.value, RootName_.pos)
                      /\ pos = ItemsAt(RootName_.pos).pos
        /\ (FirstEntryList /\ SimpleListAt(FirstEntryName.pos)
                /\ Has(input, ItemsAt(FirstEntryName.pos).pos, 1)
                /\ input[ItemsAt(FirstEntryName.pos).pos + 1] = TAG_END) =>
               /\ Len(in_progress_reads) <= 1
               /\ Done =>
                      /\ ReturnedOk
                      /\ result.value.kind = "Compound"
                      /\ DOMAIN result.value.val = {FirstEntryName.val}
                      /\ IsListAt(result.value.val[FirstEntryName.val],
                                  FirstEntryName.pos)
                      /\ pos = ItemsAt(FirstEntryName.pos).pos + 1
        /\ (RootListOfLists /\ SimpleListAt(RootName_.pos + 5)) =>
               /\ (pc = "loop" /\ pos <= ItemsAt(RootName_.pos + 5).pos) =>
                      Len(in_progress_reads) = 1
               /\ (pc = "loop" /\ pos = ItemsAt(RootName_.pos + 5).pos) =>
                      /\ working_read.type = "ReadingListOfList"
                      /\ Len(working_read.value) = 1
                      /\ IsListAt(Value("List", working_read.value[1]),
                                  RootName_.pos + 5)

\* a root list of IntArray with its MaxCount elements has been returned
C16_Witness ==
    /\ Done
    /\ FillingSource
    /\ RootList
    /\ SimpleListAt(RootName_.pos)
    /\ ReturnedOk
    /\ InnerAt(RootName_.pos) = TAG_INT_ARRAY
    /\ CountAt(RootName_.pos) = MaxCount
    /\ result.value.val.kind = "IntArray"
    /\ Len(result.value.val.val) = MaxCount

-----------------------------------------------------------------------------
ListTypes == {"ReadingListOfList", "ReadingListOfCompound"}

\* what entry i of the stack accounts for: the elements still to come, the
\* elements it holds, and the child it descended into while that child is
\* in progress, which is while the entry is below the top
Accounted(stack, i) ==
    stack[i].items_remaining + Len(stack[i].value)
        + (IF i < Len(stack) THEN 1 ELSE 0)

\* C17: for every list of lists and list of compounds on the stack, the
\* elements still to come, the elements held and the child in progress
\* add up to the count its header declared. The sum is the header's count
\* when the composite is created (by the read of the root, or by the push
\* that follows the read of its header), no step changes it or reorders
\* the elements held, and the list that is finalized holds exactly that
\* many elements, in the order they were appended.
C17_ListAccounting ==
    [][/\ \A i \in 1..Len(in_progress_reads') :
              in_progress_reads'[i].type \in ListTypes =>
                  IF pc = "loop" /\ i <= Len(in_progress_reads)
                  THEN /\ in_progress_reads[i].type = in_progress_reads'[i].type
                       /\ Accounted(in_progress_reads', i) =
                              Accounted(in_progress_reads, i)
                       /\ Len(in_progress_reads'[i].value) >=
                              Len(in_progress_reads[i].value)
                       /\ SubSeq(in_progress_reads'[i].value, 1,
                                 Len(in_progress_reads[i].value)) =
                              in_progress_reads[i].value
                  ELSE /\ i = Len(in_progress_reads')
                       /\ pos' >= 5
                       /\ InnerAt(pos' - 5) \in {TAG_LIST, TAG_COMPOUND}
                       /\ Accounted(in_progress_reads', i) = CountAt(pos' - 5)
                       /\ in_progress_reads'[i].value = <<>>
       /\ (pc = "loop" /\ working_read.type \in ListTypes /\ IsOk(step)
               /\ step.val.res = "Done") =>
              /\ working_read.items_remaining = 0
              /\ complete_value.kind = "List"
              /\ complete_value.val.val = working_read.value
              /\ Len(complete_value.val.val) =
                     Accounted(in_progress_reads, Len(in_progress_reads))]_vars

\* the root list of compounds, declared with three elements or more, holds
\* one, has one in progress and expects more
C17_Witness ==
    /\ pc = "loop"
    /\ RootList
    /\ Len(in_progress_reads) = 2
    /\ in_progress_reads[1].type = "ReadingListOfCompound"
    /\ in_progress_reads[1].items_remaining >= 1
    /\ Len(in_progress_reads[1].value) = 1
    /\ Accounted(in_progress_reads, 1) = CountAt(RootName_.pos)

-----------------------------------------------------------------------------
\* the loop is about to pop a finished composite and resume the one below
Resuming ==
    /\ pc = "loop"
    /\ IsOk(step)
    /\ step.val.res = "Done"
    /\ Len(in_progress_reads) >= 2

\* C18: no assertion of the descent engine can fail. In the loop the stack
\* is never empty (the unwraps of lines 485 and 494); a compound has its
\* pending name exactly while it is below the top, so the unwrap of
\* descended_read_complete finds it; the value a finished composite hands
\* to the one below is a List for a list of lists and a Compound for a
\* list of compounds; a step of a list composite never panics; and no
\* parse ends in a panic of a resume.
C18_NoEngineAssertionFails ==
    /\ pc = "loop" =>
           /\ in_progress_reads # <<>>
           /\ \A i \in 1..Len(in_progress_reads) :
                  in_progress_reads[i].type = "ReadingCompound" =>
                      (in_progress_reads[i].name_of_current_value # None
                           <=> i < Len(in_progress_reads))
           /\ working_read.type \in {"ReadingListOfList", "ReadingListOfCompound"}
                  => step.err.e # "panic"
    /\ Resuming =>
           /\ popped[Len(popped)].type = "ReadingListOfList" =>
                  /\ complete_value.kind = "List"
                  /\ working_read.type \in {"ReadingListOfList",
                                            "ReadingListOfCompound"}
           /\ popped[Len(popped)].type = "ReadingListOfCompound" =>
                  /\ complete_value.kind = "Compound"
                  /\ working_read.type = "ReadingCompound"
           /\ IsOk(resumed)
    /\ (Done /\ result.status = "Panic" /\ in_progress_reads # <<>>) =>
           /\ in_progress_reads[Len(in_progress_reads)].type = "ReadingCompound"
           /\ in_progress_reads[Len(in_progress_reads)]
                  .name_of_current_value = None

\* a finished compound is about to be handed to the list of compounds
\* below it, which itself lies below nothing: two resumes in a row
C18_Witness ==
    /\ Resuming
    /\ working_read.type = "ReadingCompound"
    /\ popped[Len(popped)].type = "ReadingListOfCompound"
    /\ complete_value.kind = "Compound"
    /\ IsOk(resumed)

-----------------------------------------------------------------------------
\* the bytes the parse has consumed, as a document of their own
Consumed == SubSeq(input, 1, pos)

\* C19: on a successful parse the cursor stands exactly at the end of the
\* document's encoding and the value returned is the document's; the bytes
\* consumed, taken alone, are a document with the same name and value, so
\* bytes after the document change nothing; and the cursor never moves
\* backwards nor past the end of the input.
C19_CursorAtDocumentEnd ==
    /\ [](pos <= Len(input))
    /\ []((Done /\ ReturnedOk) =>
              /\ Ref.ok
              /\ pos = Ref.pos
              /\ result.name = Ref.val.name
              /\ result.value = Ref.val.value
              /\ RefDocument(Consumed).ok
              /\ RefDocument(Consumed).pos = pos
              /\ RefDocument(Consumed).val = Ref.val)
    /\ [][pos' >= pos]_vars

\* a parse through the descent engine has returned a compound and bytes of
\* the input lie unread after the document
C19_Witness ==
    /\ Done
    /\ ReturnedOk
    /\ result.value.kind = "Compound"
    /\ result.value.val # <<>>
    /\ pos < Len(input)

====
